---- MODULE Spec2Model ----
(***************************************************************************)
(* Model of the WebcamPreview component (src/src/components/               *)
(* WebcamPreview.tsx): the per-frame inference driver                      *)
(* (handleFrameProcessed) and the recording coordinator (startRecording,   *)
(* stopRecording and the start/stop effect).                               *)
(*                                                                         *)
(* HandLandmarker, VideoProcessor and the requests module are used by the  *)
(* component but are not part of the available sources; their behaviour is *)
(* taken from the specification (sections 4.2, 4.3 and 6).                 *)
(*                                                                         *)
(* React is modelled as follows.  The hook state variables hold the latest *)
(* value given to their setters; "rendered" holds the hook state the last  *)
(* render saw.  The props are those of the last render.  The props and the *)
(* rendered state are the values captured by the closures of that render   *)
(* and the dependency values of its effect.  A render commits the props    *)
(* and the queued state; an effect whose dependencies changed is then due  *)
(* and runs as a later step (useEffect), so events and promise callbacks   *)
(* can come between the render and its effect.  A due effect runs before   *)
(* the next render.  The effect step includes the synchronous prefix of    *)
(* the async callback it calls.  Every await is a separate step taken when *)
(* the awaited promise settles; an invocation keeps the callback prop its  *)
(* render captured.                                                        *)
(***************************************************************************)
EXTENDS Integers, Sequences, FiniteSets, TLC

\* ---------------------------------------------------------------- bounds
MaxCalls == 3     \* startRecording/stopRecording invocations followed
MaxCallbackCalls == 2 \* invocations up to which the parent is followed
                      \* adding or removing a callback prop
MaxChunks == 1    \* encoded chunks kept in the encoder buffer
MaxFrames == 4    \* frames delivered to handleFrameProcessed
NumStreams == 3   \* distinct media streams given as the videoStream prop
NumLandmarkers == 2   \* HandLandmarker instances given to CameraSettings
MaxEffects == 3       \* runs of the numHands effect followed
MaxRate == 125        \* largest maxFrameRate given to generateFrameRates
MaxStreamEvents == 6  \* startProcessing/stopProcessing calls followed

VARIABLES
  \* props of WebcamPreview, as given to the last render
  isRecording,          \* prop isRecording
  directoryHandle,      \* prop directoryHandle is defined
  onRecordingStop,      \* prop onRecordingStop is given
  onStartRecordingFailed, \* prop onStartRecordingFailed is given
  \* hook state
  recordingInProgress,  \* useState(false)
  recordingOnServer,    \* useState<boolean>(): "undefined", "true", "false"
  rendered,             \* hook state seen by the last render
  effectDue,            \* the start/stop effect of the last render has not
                        \* run yet: "request" if that render changed
                        \* isRecording, "deps" if only other dependencies
                        \* changed; "none" once the effect has run
  calls,                \* async invocations of startRecording/stopRecording
  lastError,            \* error thrown by the call of startRecording or
                        \* stopRecording in the latest run of the
                        \* effect; "none" if it threw nothing
  \* VideoProcessor (encoder)
  vpState,              \* "idle", "recording", "flushing"
  recordingStartTime,   \* vp.recordingStartTime, identifies the session
  recordedChunks,       \* vp.recordedChunks, each chunk tagged by session
  \* remote server
  serverRec,            \* "idle", "mine" (this client started it), "other"
  \* HandLandmarker and frame driver
  hlExists,             \* handLandmarkerRef.current is defined
  initialized,
  processingFrame,
  processingVideo,
  frames,               \* fate of every frame given to handleFrameProcessed
  videoCalls,           \* bulk reprocessing calls currently running
  \* video stream effect and VideoProcessor frame source
  videoStream,          \* prop videoStream: "undefined", "null" or a stream
  isProcessing,         \* vp.isProcessing
  sources,              \* streams whose track is being read for frames
  streamLog,            \* startProcessing/stopProcessing calls made
  streamEffectDue,      \* the videoStream effect of the last render has not
                        \* run yet
  \* CameraSettings: number of hands
  handLandmarker,       \* prop handLandmarker: 0 (undefined) or an instance
  trackTwoHands,        \* hook state trackTwoHands
  settingNumHands,      \* hook state settingNumHands
  renderedSetting,      \* settingNumHands as the last render saw it
  numHandsEffectDue,    \* the numHands effect of the last render has not
                        \* run yet
  isDisabled,           \* prop isDisabled of CameraSettings
  landmarkers,          \* per instance: initialization state and its
                        \* settingNumHands flag
  effects,              \* runs of the numHands effect and their outcome
  numHandsCalls,        \* setNumHands invocations
  \* CameraSettings: generateFrameRates
  maxFrameRate,         \* the argument; 0 without track capabilities
  frameRates,           \* the local frameRates
  ratesPc               \* "none", "loop" or "returned"

recVars == <<isRecording, directoryHandle, recordingInProgress,
             recordingOnServer, rendered, effectDue, calls, lastError,
             vpState, recordingStartTime, recordedChunks, serverRec>>
hlVars == <<hlExists, initialized, processingFrame, processingVideo,
            frames, videoCalls>>
streamVars == <<videoStream, isProcessing, sources, streamLog,
                streamEffectDue>>
handsVars == <<handLandmarker, trackTwoHands, settingNumHands,
               renderedSetting, numHandsEffectDue, isDisabled, landmarkers,
               effects, numHandsCalls>>
rateVars == <<maxFrameRate, frameRates, ratesPc>>
propVars == <<onRecordingStop, onStartRecordingFailed>>
vars == <<recVars, propVars, hlVars, streamVars, handsVars, rateVars>>

\* ------------------------------------------------------- frame driver

\* WebcamPreview.tsx 87-92: the condition under which processFrame is called
FrameGuardNoVideoCheck ==
  hlExists /\ initialized /\ ~processingFrame

FrameGuardNoFrameCheck ==
  hlExists /\ initialized /\ ~processingVideo

FrameGuard ==
  hlExists /\ initialized /\ ~processingFrame /\ ~processingVideo

\* processFrame calls whose promise has not settled
Outstanding == {i \in 1..Len(frames) : frames[i] = "inflight"}

\* the parent creates the HandLandmarker and stores it in the ref
CreateLandmarker ==
  /\ ~hlExists
  /\ hlExists' = TRUE
  /\ UNCHANGED <<initialized, processingFrame, processingVideo, frames,
                 videoCalls>>

\* the engine finishes loading (spec 4.2: initialized = engine ready)
InitDone ==
  /\ hlExists /\ ~initialized
  /\ initialized' = TRUE
  /\ UNCHANGED <<hlExists, processingFrame, processingVideo, frames,
                 videoCalls>>

\* handleFrameProcessed(frame), WebcamPreview.tsx 85-97
handleFrameProcessed ==
  /\ Len(frames) < MaxFrames
  /\ IF FrameGuard
       THEN /\ frames' = Append(frames, "inflight")
            /\ processingFrame' = TRUE
       ELSE /\ frames' = Append(frames, "dropped")
            /\ UNCHANGED processingFrame
  /\ UNCHANGED <<hlExists, initialized, processingVideo, videoCalls>>

\* WebcamPreview.tsx 215-226: the preview with the canvas is rendered unless
\* videoStream is undefined, so canvasRef.current is set exactly then
CanvasMounted == videoStream.kind # "undefined"

\* processFrame resolves: .then draws the hands if there is a canvas
\* (WebcamPreview.tsx 93-95)
ProcessFrameResolve ==
  \E i \in Outstanding :
    /\ frames' = [frames EXCEPT
         ![i] = IF CanvasMounted THEN "drawn" ELSE "notDrawn"]
    /\ processingFrame' = FALSE
    /\ UNCHANGED <<hlExists, initialized, processingVideo, videoCalls>>

\* WebcamPreview.tsx 93-95: the promise of processFrame gets a fulfilment
\* handler only (.then with one argument, no .catch), so a rejection is
\* passed on to a promise nobody handles
RejectionFate == "unhandled"

\* processFrame rejects: the flag is reset (spec 4.2), nothing is drawn
ProcessFrameReject ==
  \E i \in Outstanding :
    /\ frames' = [frames EXCEPT ![i] = RejectionFate]
    /\ processingFrame' = FALSE
    /\ UNCHANGED <<hlExists, initialized, processingVideo, videoCalls>>

\* bulk reprocessing of a finished recording starts (spec 4.2, 5: the flags
\* are checked and set in one step, live and bulk inference do not overlap)
ProcessVideoStart ==
  /\ hlExists /\ initialized /\ ~processingFrame /\ ~processingVideo
  /\ processingVideo' = TRUE
  /\ videoCalls' = videoCalls + 1
  /\ UNCHANGED <<hlExists, initialized, processingFrame, frames>>

ProcessVideoDone ==
  /\ videoCalls > 0
  /\ processingVideo' = FALSE
  /\ videoCalls' = videoCalls - 1
  /\ UNCHANGED <<hlExists, initialized, processingFrame, frames>>

InitInfer ==
  /\ hlExists = FALSE
  /\ initialized = FALSE
  /\ processingFrame = FALSE
  /\ processingVideo = FALSE
  /\ frames = <<>>
  /\ videoCalls = 0

NextInfer ==
  \/ CreateLandmarker
  \/ InitDone
  \/ handleFrameProcessed
  \/ ProcessFrameResolve
  \/ ProcessFrameReject
  \/ ProcessVideoStart
  \/ ProcessVideoDone

\* ------------------------------------------------- video stream effect

\* values of the videoStream prop: undefined, null or a MediaStream
NoStream(kind) == [kind |-> kind, id |-> 0]

Streams == {[kind |-> "stream", id |-> n] : n \in 1..NumStreams}

StreamValues == {NoStream("undefined"), NoStream("null")} \cup Streams

\* WebcamPreview.tsx 72: the processor is stopped when it is processing
StopNeededNever == FALSE

StopNeeded == isProcessing

\* WebcamPreview.tsx 76: without a stream the effect returns
StartNeeded(v) == v \in Streams

\* the parent renders with another videoStream: the effect of lines 70-80
\* is due (its dependency, line 80, has changed)
StreamChange(v) ==
  /\ ~streamEffectDue
  /\ v # videoStream
  /\ Len(streamLog) + 2 <= MaxStreamEvents
  /\ videoStream' = v
  /\ streamEffectDue' = TRUE
  /\ UNCHANGED <<isProcessing, sources, streamLog>>

\* the effect of lines 70-80 runs with the videoStream of the last render:
\* stopProcessing() if processing, then startProcessing(track) if there is
\* a stream.  VideoProcessor (spec 4.1): stopProcessing halts the source at
\* once and resets isProcessing, startProcessing binds the track and sets
\* isProcessing.
StreamEffect ==
  /\ streamEffectDue
  /\ streamEffectDue' = FALSE
  /\ LET stopped == StopNeeded
         procAfterStop == IF stopped THEN FALSE ELSE isProcessing
         srcAfterStop == IF stopped THEN {} ELSE sources
         logAfterStop == IF stopped THEN Append(streamLog, "stop")
                         ELSE streamLog
     IN IF StartNeeded(videoStream)
          THEN /\ isProcessing' = TRUE
               /\ sources' = srcAfterStop \cup {videoStream}
               /\ streamLog' = Append(logAfterStop,
                    IF procAfterStop THEN "startWhileProcessing"
                    ELSE "start")
          ELSE /\ isProcessing' = procAfterStop
               /\ sources' = srcAfterStop
               /\ streamLog' = logAfterStop
  /\ UNCHANGED videoStream

\* the track of the active source ends: the source stops silently
\* (spec 4.1)
TrackEnded ==
  /\ sources # {}
  /\ sources' = {}
  /\ isProcessing' = FALSE
  /\ UNCHANGED <<videoStream, streamLog, streamEffectDue>>

InitStream ==
  /\ videoStream = NoStream("undefined")
  /\ isProcessing = FALSE
  /\ sources = {}
  /\ streamLog = <<>>
  /\ streamEffectDue = FALSE

NextStream ==
  \/ \E v \in StreamValues : StreamChange(v)
  \/ StreamEffect
  \/ TrackEnded

\* ------------------------------------------- CameraSettings: numHands

Landmarkers == 1..NumLandmarkers

\* setNumHands invocations on landmarker h that have not completed
InFlight(h) ==
  {c \in 1..Len(numHandsCalls) :
     numHandsCalls[c].hl = h /\ ~numHandsCalls[c].done}

\* part_000 132: the continuation returns when the landmarker is busy
EffectSkipsNever(h) == FALSE

EffectSkips(h) == landmarkers[h].settingNumHands

\* part_000 125-141, synchronous part of the effect for prop value h and
\* state value two: without a landmarker it returns (126); otherwise
\* setSettingNumHands(true) and the callbacks registered on
\* waitForInitialization().  The runs of the effect after this one.
EffectsAfter(effs, h, two) ==
  IF h = 0 THEN effs
  ELSE Append(effs, [hl |-> h, numHands |-> IF two THEN 2 ELSE 1,
                     outcome |-> "waiting", finished |-> FALSE])

\* the hook state settingNumHands after that run (part_000 126, 128)
SettingAfter(setting, h) == IF h = 0 THEN setting ELSE TRUE

\* part_000 131-140: .then, .catch and .finally run as successive
\* microtasks; once the first callback of an effect has run, the rest of
\* its chain runs before the next task (an event, a render, a message of
\* the landmarker)
MicrotaskPending ==
  \E e \in 1..Len(effects) :
    effects[e].outcome # "waiting" /\ ~effects[e].finished

\* the parent renders with another handLandmarker; the render sees the
\* hook state queued so far; the effect is due (dependency list, line 141)
LandmarkerChange(h) ==
  /\ ~MicrotaskPending
  /\ ~numHandsEffectDue
  /\ h # handLandmarker
  /\ h # 0 => Len(effects) < MaxEffects
  /\ handLandmarker' = h
  /\ renderedSetting' = settingNumHands
  /\ numHandsEffectDue' = TRUE
  /\ UNCHANGED <<trackTwoHands, settingNumHands, isDisabled, landmarkers,
                 effects, numHandsCalls>>

\* the numHands effect of the last render runs (part_000 125-141)
NumHandsEffect ==
  /\ ~MicrotaskPending
  /\ numHandsEffectDue
  /\ numHandsEffectDue' = FALSE
  /\ effects' = EffectsAfter(effects, handLandmarker, trackTwoHands)
  /\ settingNumHands' = SettingAfter(settingNumHands, handLandmarker)
  /\ UNCHANGED <<handLandmarker, trackTwoHands, renderedSetting,
                 isDisabled, landmarkers, numHandsCalls>>

\* the parent renders with another isDisabled (part_000 27, 39)
DisabledChange ==
  /\ ~MicrotaskPending
  /\ ~numHandsEffectDue
  /\ isDisabled' = ~isDisabled
  /\ renderedSetting' = settingNumHands
  /\ UNCHANGED <<handLandmarker, trackTwoHands, settingNumHands,
                 numHandsEffectDue, landmarkers, effects, numHandsCalls>>

\* a state update queued by setSettingNumHands (part_000 128, 139) makes
\* the component render again; the dependencies of the effect are as
\* before and it does not run
RenderSettings ==
  /\ ~MicrotaskPending
  /\ ~numHandsEffectDue
  /\ renderedSetting # settingNumHands
  /\ renderedSetting' = settingNumHands
  /\ UNCHANGED <<handLandmarker, trackTwoHands, settingNumHands,
                 numHandsEffectDue, isDisabled, landmarkers, effects,
                 numHandsCalls>>

\* part_000 295, computed by the last render
isTrackTwoHandsDisabled == handLandmarker = 0 \/ renderedSetting

\* part_000 148-152; the guard reads the landmarker's own flag; a changed
\* state value re-renders and, the change being made in an event handler,
\* the effect of that render runs before the event is over.  An effect
\* still due from the render before runs first, with the values of that
\* render.
handleTrackTwoHandsChange(two) ==
  LET h == handLandmarker
      effsBefore == IF numHandsEffectDue
                      THEN EffectsAfter(effects, h, trackTwoHands)
                      ELSE effects
      settingBefore == IF numHandsEffectDue
                         THEN SettingAfter(settingNumHands, h)
                         ELSE settingNumHands
  IN /\ ~(h = 0 \/ landmarkers[h].settingNumHands)
     /\ two # trackTwoHands
     /\ Len(effsBefore) < MaxEffects
     /\ trackTwoHands' = two
     /\ renderedSetting' = settingBefore
     /\ effects' = EffectsAfter(effsBefore, h, two)
     /\ settingNumHands' = SettingAfter(settingBefore, h)
     /\ numHandsEffectDue' = FALSE
     /\ UNCHANGED <<handLandmarker, isDisabled, landmarkers, numHandsCalls>>

\* part_000 394-400: the switch calls the handler unless the last render
\* disabled it
SwitchChange(two) ==
  /\ ~MicrotaskPending
  /\ ~(isTrackTwoHandsDisabled \/ isDisabled)
  /\ handleTrackTwoHandsChange(two)

\* HandLandmarker (spec 4.2): initialization completes or fails
LandmarkerReady(h) ==
  /\ ~MicrotaskPending
  /\ landmarkers[h].state = "loading"
  /\ landmarkers' = [landmarkers EXCEPT ![h].state = "ready"]
  /\ UNCHANGED <<handLandmarker, trackTwoHands, settingNumHands,
                 renderedSetting, numHandsEffectDue, isDisabled, effects,
                 numHandsCalls>>

LandmarkerFailed(h) ==
  /\ ~MicrotaskPending
  /\ landmarkers[h].state = "loading"
  /\ landmarkers' = [landmarkers EXCEPT ![h].state = "failed"]
  /\ UNCHANGED <<handLandmarker, trackTwoHands, settingNumHands,
                 renderedSetting, numHandsEffectDue, isDisabled, effects,
                 numHandsCalls>>

\* part_000 131-134: waitForInitialization() has resolved; .then calls
\* setNumHands unless the landmarker is busy.  setNumHands (spec 4.2) sets
\* the landmarker's settingNumHands flag until the change is done.
EffectThen(e) ==
  LET h == effects[e].hl IN
  /\ effects[e].outcome = "waiting"
  /\ landmarkers[h].state = "ready"
  /\ IF EffectSkips(h)
       THEN /\ effects' = [effects EXCEPT ![e].outcome = "skipped"]
            /\ UNCHANGED <<landmarkers, numHandsCalls>>
       ELSE /\ effects' = [effects EXCEPT ![e].outcome = "called"]
            /\ numHandsCalls' = Append(numHandsCalls,
                 [hl |-> h, numHands |-> effects[e].numHands,
                  busy |-> landmarkers[h].settingNumHands,
                  done |-> FALSE])
            /\ landmarkers' =
                 [landmarkers EXCEPT ![h].settingNumHands = TRUE]
  /\ UNCHANGED <<handLandmarker, trackTwoHands, settingNumHands,
                 renderedSetting, numHandsEffectDue, isDisabled>>

\* part_000 135-137: waitForInitialization() has rejected; .catch logs
EffectCatch(e) ==
  /\ effects[e].outcome = "waiting"
  /\ landmarkers[effects[e].hl].state = "failed"
  /\ effects' = [effects EXCEPT ![e].outcome = "logged"]
  /\ UNCHANGED <<handLandmarker, trackTwoHands, settingNumHands,
                 renderedSetting, numHandsEffectDue, isDisabled, landmarkers,
                 numHandsCalls>>

\* part_000 138-140: .finally resets the hook state
EffectFinally(e) ==
  /\ effects[e].outcome # "waiting"
  /\ ~effects[e].finished
  /\ effects' = [effects EXCEPT ![e].finished = TRUE]
  /\ settingNumHands' = FALSE
  /\ UNCHANGED <<handLandmarker, trackTwoHands, renderedSetting,
                 numHandsEffectDue, isDisabled, landmarkers, numHandsCalls>>

\* HandLandmarker (spec 4.2): a configuration change completes
SetNumHandsDone(c) ==
  /\ ~MicrotaskPending
  /\ ~numHandsCalls[c].done
  /\ numHandsCalls' = [numHandsCalls EXCEPT ![c].done = TRUE]
  /\ landmarkers' =
       [landmarkers EXCEPT ![numHandsCalls[c].hl].settingNumHands = FALSE]
  /\ UNCHANGED <<handLandmarker, trackTwoHands, settingNumHands,
                 renderedSetting, numHandsEffectDue, isDisabled, effects>>

InitHands ==
  /\ handLandmarker = 0
  /\ trackTwoHands = TRUE
  /\ settingNumHands = FALSE
  /\ renderedSetting = FALSE
  /\ numHandsEffectDue = FALSE
  /\ isDisabled = FALSE
  /\ landmarkers =
       [h \in Landmarkers |-> [state |-> "loading", settingNumHands |-> FALSE]]
  /\ effects = <<>>
  /\ numHandsCalls = <<>>

NextHands ==
  \/ \E h \in {0} \cup Landmarkers : LandmarkerChange(h)
  \/ NumHandsEffect
  \/ \E two \in BOOLEAN : SwitchChange(two)
  \/ \E h \in Landmarkers : LandmarkerReady(h)
  \/ \E h \in Landmarkers : LandmarkerFailed(h)
  \/ \E e \in 1..Len(effects) : EffectThen(e)
  \/ \E e \in 1..Len(effects) : EffectCatch(e)
  \/ \E e \in 1..Len(effects) : EffectFinally(e)
  \/ DisabledChange
  \/ RenderSettings
  \/ \E c \in 1..Len(numHandsCalls) : SetNumHandsDone(c)

\* ------------------------------------ CameraSettings: generateFrameRates

\* part_000 364: the list starts with 30
FirstRate == 30

\* part_000 366: the next rate is 30 above the last one
RateStep == 30

Min(a, b) == IF a < b THEN a ELSE b

Last(seq) == seq[Len(seq)]

\* part_000 365: the loop condition
LoopCondition == Last(frameRates) < maxFrameRate

\* part_000 366: one iteration of the loop
LoopStep ==
  /\ ratesPc = "loop"
  /\ LoopCondition
  /\ frameRates' =
       Append(frameRates, Min(Last(frameRates) + RateStep, maxFrameRate))
  /\ UNCHANGED <<maxFrameRate, ratesPc>>

\* part_000 368
Return ==
  /\ ratesPc = "loop"
  /\ ~LoopCondition
  /\ ratesPc' = "returned"
  /\ UNCHANGED <<maxFrameRate, frameRates>>

\* part_000 416-420: without track capabilities the options are [30] and
\* the function is not called
InitNoRates ==
  /\ maxFrameRate = 0
  /\ frameRates = <<FirstRate>>
  /\ ratesPc = "none"

\* generateFrameRates(maxFrameRate) is entered with a positive integer
InitRates ==
  /\ maxFrameRate \in 1..MaxRate
  /\ frameRates = <<FirstRate>>
  /\ ratesPc = "loop"

NextRates == LoopStep \/ Return

\* ------------------------------------------------ recording coordinator

StartPcs == {"getConn", "isRec", "encStart"}
StopPcs == {"encStop", "callback"}

CallIds == 1..Len(calls)
StartCalls == {i \in CallIds : calls[i].kind = "start"}
StopCalls == {i \in CallIds : calls[i].kind = "stop"}
StartsInProgress == {i \in StartCalls : calls[i].pc \in StartPcs}
StopsInProgress == {i \in StopCalls : calls[i].pc \in StopPcs}

\* the props and state of a render: the values its closures capture and
\* the dependencies of its effect (directly or through the identity of
\* startRecording and stopRecording, WebcamPreview.tsx 164, 200, 211); of
\* the callback props the view holds whether they are given
View(isRec, dir, stopCb, failedCb) ==
  [isRecording |-> isRec, directoryHandle |-> dir,
   onRecordingStop |-> stopCb, onStartRecordingFailed |-> failedCb,
   recordingInProgress |-> recordingInProgress,
   recordingOnServer |-> recordingOnServer]

LastView ==
  [isRecording |-> isRecording, directoryHandle |-> directoryHandle,
   onRecordingStop |-> onRecordingStop,
   onStartRecordingFailed |-> onStartRecordingFailed,
   recordingInProgress |-> rendered.recordingInProgress,
   recordingOnServer |-> rendered.recordingOnServer]

\* a fresh invocation record
NewCall(kind, pc) ==
  [kind |-> kind, pc |-> pc,
   callback |-> FALSE,    \* the render that made the call was given the
                          \* callback prop the call uses
   status |-> "none",     \* answer to requests.isRecording()
   rcmd |-> "none",       \* requests.setRecording this call issued
   local |-> FALSE,       \* vp.startRecording / vp.stopRecording invoked
   owner |-> FALSE,       \* the encoder session was opened / closed by it
   failedCb |-> FALSE,    \* onStartRecordingFailed invoked by this call
   fatal |-> FALSE,       \* the onFatalError callback of this call has run
   setRIP |-> FALSE,      \* setRecordingInProgress invoked by this call
   sess |-> 0,            \* vp.recordingStartTime of the call's session
   cbArg |-> <<>>,        \* vp.recordedChunks given to onRecordingStop
   cbTime |-> 0,          \* vp.recordingStartTime given to onRecordingStop
   cleared |-> FALSE,     \* this call has cleared vp.recordedChunks
   lost |-> <<>>]         \* the chunks that were in the buffer it cleared

\* WebcamPreview.tsx 205-211: the branch the start/stop effect takes
EffectBranch(r) ==
  IF r.isRecording /\ ~r.recordingInProgress THEN "start"
  ELSE IF ~r.isRecording /\ r.recordingInProgress THEN "stop"
  ELSE "none"

\* WebcamPreview.tsx 103-104: the guards of startRecording
StartGuardError(r) ==
  IF r.recordingInProgress THEN "Recording already in progress"
  ELSE IF ~r.directoryHandle THEN "No directory selected"
  ELSE "none"

\* WebcamPreview.tsx 171: the guard of stopRecording
StopGuardError(r) ==
  IF ~r.recordingInProgress THEN "Recording not in progress" ELSE "none"

\* WebcamPreview.tsx 174: stopRecording mirrors the stop to the server
StopMirrors(r) == r.recordingOnServer = "true"

\* VideoProcessor.stopRecording() is invoked (spec 4.3): an active session
\* begins to flush; with no active session the call changes nothing
VpStopInvoked == IF vpState = "recording" THEN "flushing" ELSE vpState

\* startRecording up to its first await (WebcamPreview.tsx 102-107)
StartSync(r) ==
  IF StartGuardError(r) # "none"
    THEN /\ lastError' = StartGuardError(r)
         /\ UNCHANGED <<calls, recordingOnServer, vpState>>
    ELSE /\ Len(calls) < MaxCalls
         /\ calls' = Append(calls,
              [NewCall("start", "getConn") EXCEPT
                 !.callback = r.onStartRecordingFailed])
         /\ lastError' = "none"
         /\ UNCHANGED <<recordingOnServer, vpState>>

\* stopRecording up to its first await (WebcamPreview.tsx 170-190)
StopSync(r) ==
  IF StopGuardError(r) # "none"
    THEN /\ lastError' = StopGuardError(r)
         /\ UNCHANGED <<calls, recordingOnServer, vpState>>
    ELSE /\ Len(calls) < MaxCalls
         /\ recordingOnServer' =
              IF StopMirrors(r) THEN "false" ELSE recordingOnServer
         /\ calls' = Append(calls,
              [NewCall("stop", "encStop") EXCEPT
                 !.callback = r.onRecordingStop,
                 !.rcmd = IF StopMirrors(r) THEN "pending" ELSE "none",
                 !.local = TRUE,
                 !.owner = (vpState = "recording"),
                 !.sess = recordingStartTime])
         /\ vpState' = VpStopInvoked
         /\ lastError' = "none"

\* the effect of a render with the values of r makes an invocation
Invokes(r) ==
  \/ EffectBranch(r) = "start" /\ StartGuardError(r) = "none"
  \/ EffectBranch(r) = "stop" /\ StopGuardError(r) = "none"

\* a render of WebcamPreview with the props of r (WebcamPreview.tsx 47-203);
\* the render sees every state update queued so far, and its start/stop
\* effect is due; an effect due from the render before has run first
RenderCommit(r, cause) ==
  /\ effectDue = "none"
  /\ Invokes(r) => Len(calls) < MaxCalls
  /\ isRecording' = r.isRecording
  /\ directoryHandle' = r.directoryHandle
  /\ onRecordingStop' = r.onRecordingStop
  /\ onStartRecordingFailed' = r.onStartRecordingFailed
  /\ rendered' = [recordingInProgress |-> recordingInProgress,
                  recordingOnServer |-> recordingOnServer]
  /\ effectDue' = cause
  /\ UNCHANGED <<calls, lastError, recordingInProgress, recordingOnServer,
                 vpState, recordingStartTime, recordedChunks, serverRec>>

\* the start/stop effect of the last render runs (WebcamPreview.tsx
\* 205-211) with the props and state of that render
StartStopEffect ==
  /\ effectDue # "none"
  /\ effectDue' = "none"
  /\ CASE EffectBranch(LastView) = "start" -> StartSync(LastView)
       [] EffectBranch(LastView) = "stop" -> StopSync(LastView)
       [] OTHER -> /\ lastError' = "none"
                   /\ UNCHANGED <<calls, recordingOnServer, vpState>>
  /\ UNCHANGED <<propVars, isRecording, directoryHandle, rendered,
                 recordingInProgress, recordingStartTime, recordedChunks,
                 serverRec>>

\* the effect is due after a render in which one of its dependencies (line
\* 211) differs from the last render: isRecording, recordingInProgress, or
\* startRecording / stopRecording, whose dependencies (lines 164, 200)
\* include directoryHandle, recordingOnServer and the callback props
RenderWith(r, cause) ==
  /\ r # LastView
  /\ RenderCommit(r, cause)

\* renders by the parent are followed as long as the component can still
\* make an invocation among those followed
ParentRenders == Len(calls) < MaxCalls

\* the dependencies of startRecording and stopRecording that are compared
\* by identity (lines 164, 200): the directory handle, the two callbacks
\* and the toast function that useToast returned to this render
IdentityDeps ==
  {"directoryHandle", "onRecordingStop", "onStartRecordingFailed", "toast"}

\* the dependency is there to get a new identity: a directory handle or a
\* callback only if the parent gives one, the toast function always
DepGiven(dep) ==
  CASE dep = "directoryHandle" -> directoryHandle
    [] dep = "onRecordingStop" -> onRecordingStop
    [] dep = "onStartRecordingFailed" -> onStartRecordingFailed
    [] dep = "toast" -> TRUE

\* a render in which such a dependency is a new object (another directory
\* handle, another function): startRecording or stopRecording has a new
\* identity and the effect is due again
RenderNewIdentity ==
  /\ ParentRenders
  /\ \E dep \in IdentityDeps : DepGiven(dep)
  /\ RenderCommit(View(isRecording, directoryHandle, onRecordingStop,
                       onStartRecordingFailed), "deps")

\* a state update queued by a setter makes the component render again
Render ==
  RenderWith(View(isRecording, directoryHandle, onRecordingStop,
                  onStartRecordingFailed), "deps")

\* the parent renders with a new isRecording prop (record button, or its
\* reaction to onStartRecordingFailed)
SetIsRecording ==
  /\ ParentRenders
  /\ RenderWith(View(~isRecording, directoryHandle, onRecordingStop,
                     onStartRecordingFailed), "request")

\* the parent renders after the user has selected the target directory,
\* or without a directory again
SelectDirectory ==
  /\ ParentRenders
  /\ RenderWith(View(isRecording, ~directoryHandle, onRecordingStop,
                     onStartRecordingFailed), "deps")

\* the parent renders with a callback prop added or removed
\* (WebcamPreview.tsx 37, 41: both are optional)
SetCallbacks(stopCb, failedCb) ==
  /\ Len(calls) < MaxCallbackCalls
  /\ <<stopCb, failedCb>> # <<onRecordingStop, onStartRecordingFailed>>
  /\ RenderWith(View(isRecording, directoryHandle, stopCb, failedCb), "deps")

\* ---- startRecording after its awaits (WebcamPreview.tsx 107-163)

\* WebcamPreview.tsx 108: without connection settings the status is not asked
AfterConnectionLocalFirst(connected) == "encStart"

AfterConnection(connected) == IF connected THEN "isRec" ELSE "encStart"

\* WebcamPreview.tsx 111-151: what startRecording does with the status
StatusBranch(status) ==
  IF status = "unavailable" THEN "localOnly"
  ELSE IF status = "recording" THEN "abort"
  ELSE "mirror"

\* requests.isRecording() (spec 6: bool | unavailable; spec 8: the query
\* may also throw, that is, its promise rejects)
StatusAnswers ==
  {"unavailable", "threw", IF serverRec = "idle" THEN "idle" ELSE "recording"}

\* requests.getConnectionSettings() settles (WebcamPreview.tsx 107-110,
\* 154); if its promise rejects the invocation ends at the await, which has
\* no try/catch
GetConnDone(i) ==
  /\ calls[i].kind = "start" /\ calls[i].pc = "getConn"
  /\ \/ \E connected \in BOOLEAN :
          calls' = [calls EXCEPT
            ![i].pc = AfterConnection(connected),
            ![i].status = IF connected THEN "none" ELSE "notconnected",
            ![i].local = (AfterConnection(connected) = "encStart")]
     \/ calls' = [calls EXCEPT ![i].pc = "done", ![i].status = "noSettings"]
  /\ UNCHANGED <<propVars, effectDue, isRecording, directoryHandle, recordingInProgress,
                 recordingOnServer, rendered, lastError, vpState,
                 recordingStartTime, recordedChunks, serverRec>>

\* requests.isRecording() settles (WebcamPreview.tsx 110-154); if its
\* promise rejects the invocation ends at the await, which has no
\* try/catch; onStartRecordingFailed (line 132) is the callback the
\* invocation's render was given
IsRecDone(i) ==
  /\ calls[i].kind = "start" /\ calls[i].pc = "isRec"
  /\ \E status \in StatusAnswers :
       calls' =
         IF status = "threw"
           THEN [calls EXCEPT ![i].status = status, ![i].pc = "done"]
           ELSE [calls EXCEPT
                   ![i].status = status,
                   ![i].failedCb = (StatusBranch(status) = "abort" /\
                                    calls[i].callback),
                   ![i].rcmd = IF StatusBranch(status) = "mirror"
                                 THEN "pending" ELSE "none",
                   ![i].local = (StatusBranch(status) # "abort"),
                   ![i].pc = IF StatusBranch(status) = "abort"
                               THEN "done" ELSE "encStart"]
  /\ UNCHANGED <<propVars, effectDue, isRecording, directoryHandle, recordingInProgress,
                 recordingOnServer, rendered, lastError, vpState,
                 recordingStartTime, recordedChunks, serverRec>>

\* requests.setRecording(true) succeeds (WebcamPreview.tsx 138-140)
RemoteStartOk(i) ==
  /\ calls[i].kind = "start" /\ calls[i].rcmd = "pending"
  /\ calls' = [calls EXCEPT ![i].rcmd = "ok"]
  /\ recordingOnServer' = "true"
  /\ serverRec' = "mine"
  /\ UNCHANGED <<propVars, effectDue, isRecording, directoryHandle, recordingInProgress,
                 rendered, lastError, vpState, recordingStartTime,
                 recordedChunks>>

\* requests.setRecording(true) fails (WebcamPreview.tsx 141-150)
RemoteStartFailRollsBack(i) ==
  /\ calls[i].kind = "start" /\ calls[i].rcmd = "pending"
  /\ calls' = [calls EXCEPT ![i].rcmd = "failed"]
  /\ recordingInProgress' = FALSE
  /\ UNCHANGED <<propVars, effectDue, isRecording, directoryHandle,
                 recordingOnServer, rendered, lastError, vpState,
                 recordingStartTime, recordedChunks, serverRec>>

RemoteStartFail(i) ==
  /\ calls[i].kind = "start" /\ calls[i].rcmd = "pending"
  /\ calls' = [calls EXCEPT ![i].rcmd = "failed"]
  /\ UNCHANGED <<propVars, effectDue, isRecording, directoryHandle, recordingInProgress,
                 recordingOnServer, rendered, lastError, vpState,
                 recordingStartTime, recordedChunks, serverRec>>

\* vp.startRecording resolves (WebcamPreview.tsx 154-163; spec 4.3: a new
\* session begins, the call fails if a session is already active)
EncStartResolve(i) ==
  /\ calls[i].kind = "start" /\ calls[i].pc = "encStart"
  /\ IF vpState = "idle"
       THEN /\ vpState' = "recording"
            /\ recordingStartTime' = recordingStartTime + 1
            /\ recordingInProgress' = TRUE
            /\ calls' = [calls EXCEPT ![i].pc = "done", ![i].owner = TRUE,
                           ![i].setRIP = TRUE,
                           ![i].sess = recordingStartTime + 1]
            /\ UNCHANGED lastError
       ELSE /\ calls' = [calls EXCEPT ![i].pc = "done"]
            /\ UNCHANGED <<vpState, recordingStartTime, recordingInProgress,
                           lastError>>
  /\ UNCHANGED <<propVars, effectDue, isRecording, directoryHandle, recordingOnServer, rendered,
                 recordedChunks, serverRec>>

\* vp.startRecording rejects for a reason of its own (storage target);
\* a fatal encoder error is reported through the onFatalError callback of
\* WebcamPreview.tsx 157-160 first, which calls the onStartRecordingFailed
\* its render was given
EncStartReject(i) ==
  /\ calls[i].kind = "start" /\ calls[i].pc = "encStart"
  /\ \E viaCallback \in BOOLEAN :
       calls' = [calls EXCEPT
         ![i].pc = "done",
         ![i].fatal = viaCallback,
         ![i].failedCb = calls[i].failedCb \/
                           (viaCallback /\ calls[i].callback)]
  /\ UNCHANGED <<propVars, effectDue, isRecording, directoryHandle, recordingInProgress,
                 recordingOnServer, rendered, lastError, vpState,
                 recordingStartTime, recordedChunks, serverRec>>

\* the start call that opened the encoder's present session
SessionOwner ==
  {i \in StartCalls : calls[i].owner /\ calls[i].sess = recordingStartTime}

\* the encoder's present session has met a fatal error
SessionFailed == \E i \in SessionOwner : calls[i].fatal

\* a fatal encoder error during the session or its flush (spec 4.3): the
\* encoder calls the onFatalError callback it was given (WebcamPreview.tsx
\* 157-160), which calls onStartRecordingFailed if the render of that
\* invocation was given the prop; the session stays flushable
EncoderFatal(i) ==
  /\ vpState \in {"recording", "flushing"}
  /\ i \in SessionOwner
  /\ ~calls[i].fatal
  /\ calls' = [calls EXCEPT
       ![i].fatal = TRUE,
       ![i].failedCb = calls[i].failedCb \/ calls[i].callback]
  /\ UNCHANGED <<propVars, effectDue, isRecording, directoryHandle, recordingInProgress,
                 recordingOnServer, rendered, lastError, vpState,
                 recordingStartTime, recordedChunks, serverRec>>

\* ---- stopRecording after its awaits (WebcamPreview.tsx 176-199)

\* requests.setRecording(false) succeeds
RemoteStopOk(i) ==
  /\ calls[i].kind = "stop" /\ calls[i].rcmd = "pending"
  /\ calls' = [calls EXCEPT ![i].rcmd = "ok"]
  /\ serverRec' = "idle"
  /\ UNCHANGED <<propVars, effectDue, isRecording, directoryHandle, recordingInProgress,
                 recordingOnServer, rendered, lastError, vpState,
                 recordingStartTime, recordedChunks>>

\* requests.setRecording(false) fails (WebcamPreview.tsx 176-185)
RemoteStopFail(i) ==
  /\ calls[i].kind = "stop" /\ calls[i].rcmd = "pending"
  /\ calls' = [calls EXCEPT ![i].rcmd = "failed"]
  /\ UNCHANGED <<propVars, effectDue, isRecording, directoryHandle, recordingInProgress,
                 recordingOnServer, rendered, lastError, vpState,
                 recordingStartTime, recordedChunks, serverRec>>

\* vp.stopRecording() resolves: the flush is complete; the component resets
\* its state and invokes the onRecordingStop its render was given
\* (WebcamPreview.tsx 190-198)
EncStopResolve(i) ==
  /\ calls[i].kind = "stop" /\ calls[i].pc = "encStop"
  /\ vpState' = IF calls[i].owner THEN "idle" ELSE vpState
  /\ recordingInProgress' = FALSE
  /\ IF calls[i].callback
       THEN /\ calls' = [calls EXCEPT
                 ![i].pc = "callback", ![i].setRIP = TRUE,
                 ![i].cbArg = recordedChunks,
                 ![i].cbTime = recordingStartTime]
            /\ UNCHANGED recordedChunks
       ELSE /\ calls' = [calls EXCEPT
                 ![i].pc = "done", ![i].setRIP = TRUE,
                 ![i].cleared = TRUE, ![i].lost = recordedChunks]
            /\ recordedChunks' = <<>>
  /\ UNCHANGED <<propVars, effectDue, isRecording, directoryHandle, recordingOnServer, rendered,
                 lastError, recordingStartTime, serverRec>>

\* vp.stopRecording() rejects; the specification leaves open what the
\* encoder does with a stop that found no session to close, so such a call
\* may resolve (above) or reject
EncStopReject(i) ==
  /\ calls[i].kind = "stop" /\ calls[i].pc = "encStop"
  /\ ~calls[i].owner
  /\ calls' = [calls EXCEPT ![i].pc = "done"]
  /\ UNCHANGED <<propVars, effectDue, isRecording, directoryHandle, recordingInProgress,
                 recordingOnServer, rendered, lastError, vpState,
                 recordingStartTime, recordedChunks, serverRec>>

\* the promise of onRecordingStop resolves; the chunks are cleared
\* (WebcamPreview.tsx 198-199)
CallbackSettle(i) ==
  /\ calls[i].kind = "stop" /\ calls[i].pc = "callback"
  /\ recordedChunks' = <<>>
  /\ calls' = [calls EXCEPT ![i].pc = "done", ![i].cleared = TRUE,
                 ![i].lost = recordedChunks]
  /\ UNCHANGED <<propVars, effectDue, isRecording, directoryHandle, recordingInProgress,
                 recordingOnServer, rendered, lastError, vpState,
                 recordingStartTime, serverRec>>

\* the promise of onRecordingStop rejects; line 199 is not reached
CallbackReject(i) ==
  /\ calls[i].kind = "stop" /\ calls[i].pc = "callback"
  /\ calls' = [calls EXCEPT ![i].pc = "done"]
  /\ UNCHANGED <<propVars, effectDue, isRecording, directoryHandle, recordingInProgress,
                 recordingOnServer, rendered, lastError, vpState,
                 recordingStartTime, recordedChunks, serverRec>>

\* ---- environment

\* the encoder emits a chunk of the active session (spec 4.3)
EncodeChunk ==
  /\ vpState = "recording"
  /\ ~SessionFailed
  /\ Len(recordedChunks) < MaxChunks
  /\ recordedChunks' = Append(recordedChunks, recordingStartTime)
  /\ UNCHANGED <<propVars, effectDue, isRecording, directoryHandle, recordingInProgress,
                 recordingOnServer, rendered, calls, lastError, vpState,
                 recordingStartTime, serverRec>>

\* another client starts or stops the recording on the server
ServerOther ==
  /\ serverRec \in {"idle", "other"}
  /\ serverRec' = IF serverRec = "idle" THEN "other" ELSE "idle"
  /\ UNCHANGED <<propVars, effectDue, isRecording, directoryHandle, recordingInProgress,
                 recordingOnServer, rendered, calls, lastError, vpState,
                 recordingStartTime, recordedChunks>>

NextRec ==
  \/ Render
  \/ StartStopEffect
  \/ \E i \in CallIds : GetConnDone(i)
  \/ \E i \in CallIds : IsRecDone(i)
  \/ \E i \in CallIds : RemoteStartOk(i)
  \/ \E i \in CallIds : RemoteStartFail(i)
  \/ \E i \in CallIds : EncStartResolve(i)
  \/ \E i \in CallIds : EncStartReject(i)
  \/ \E i \in CallIds : EncoderFatal(i)
  \/ \E i \in CallIds : RemoteStopOk(i)
  \/ \E i \in CallIds : RemoteStopFail(i)
  \/ \E i \in CallIds : EncStopResolve(i)
  \/ \E i \in CallIds : EncStopReject(i)
  \/ \E i \in CallIds : CallbackSettle(i)
  \/ \E i \in CallIds : CallbackReject(i)
  \/ EncodeChunk
  \/ SetIsRecording
  \/ SelectDirectory
  \/ RenderNewIdentity
  \/ \E stopCb, failedCb \in BOOLEAN : SetCallbacks(stopCb, failedCb)
  \/ ServerOther

InitRec ==
  /\ isRecording = FALSE
  /\ directoryHandle = FALSE
  /\ recordingInProgress = FALSE
  /\ recordingOnServer = "undefined"
  /\ rendered = [recordingInProgress |-> FALSE,
                 recordingOnServer |-> "undefined"]
  /\ effectDue = "none"
  /\ calls = <<>>
  /\ lastError = "none"
  /\ vpState = "idle"
  /\ recordingStartTime = 0
  /\ recordedChunks = <<>>
  /\ serverRec = "idle"

InitOthers == InitRec /\ InitInfer /\ InitStream /\ InitHands

\* WebcamPreview.tsx 37, 41: the callback props are optional
InitProps ==
  /\ onRecordingStop \in BOOLEAN
  /\ onStartRecordingFailed \in BOOLEAN

InitNoProps ==
  /\ onRecordingStop = FALSE
  /\ onStartRecordingFailed = FALSE

Init == InitOthers /\ InitNoRates /\ InitProps

\* the initial state for the parts that do not involve the recording
\* coordinator
InitPlain == InitOthers /\ InitNoRates /\ InitNoProps

Spec ==
  Init /\ [][NextRec /\
             UNCHANGED <<hlVars, streamVars, handsVars, rateVars>>]_vars

\* the frame driver together with the videoStream prop, which decides
\* whether there is a canvas to draw on
NextInferStream ==
  \/ NextInfer /\ UNCHANGED streamVars
  \/ NextStream /\ UNCHANGED hlVars

SpecInfer ==
  InitPlain /\ [][NextInferStream /\
             UNCHANGED <<propVars, recVars, handsVars, rateVars>>]_vars

SpecStream ==
  InitPlain /\ [][NextStream /\
             UNCHANGED <<propVars, recVars, hlVars, handsVars, rateVars>>]_vars

SpecHands ==
  InitPlain /\ [][NextHands /\
             UNCHANGED <<propVars, recVars, hlVars, streamVars, rateVars>>]_vars

InitGenerate == InitOthers /\ InitRates /\ InitNoProps

SpecRates ==
  InitGenerate /\
  [][NextRates /\ UNCHANGED <<propVars, recVars, hlVars, streamVars, handsVars>>]_vars

\* C1: processFrame is called only when the landmarker exists, is
\* initialized and neither processingFrame nor processingVideo is set, so
\* never are two processFrame calls outstanding, nor one together with a
\* bulk reprocessing call.
C1_NoOverlap ==
  /\ Cardinality(Outstanding) <= 1
  /\ ~(Outstanding # {} /\ videoCalls > 0)
  /\ Outstanding # {} => hlExists /\ initialized

C1_Witness ==
  /\ Outstanding # {}
  /\ \E i \in 1..Len(frames) : frames[i] = "dropped" /\ i > 1
  /\ \E i \in 1..Len(frames) : frames[i] = "drawn"
  /\ \E i \in 1..Len(frames) : frames[i] = "notDrawn"
\* ------------------------------------------------------------- claims

\* the sessions the encoder has opened so far
Sessions == 1..recordingStartTime
\* the stopRecording invocations made for session s
StopsOfSession(s) == {i \in StopCalls : calls[i].sess = s}
\* the startRecording invocation whose vp.startRecording opened session s
StartOfSession(s) == {i \in StartCalls : calls[i].owner /\ calls[i].sess = s}
\* no stopRecording has yet reset recordingInProgress for session s
NotStopped(s) == \A j \in StopsOfSession(s) : ~calls[j].setRIP

\* C2: a start that arrives while a start is in progress does not run the
\* start sequence again: never are two start sequences in progress, and
\* never are two vp.startRecording calls of the component pending.
C2_StartNotReentered ==
  /\ Cardinality(StartsInProgress) <= 1
  /\ Cardinality({i \in StartCalls :
                    calls[i].pc = "encStart" /\ calls[i].local}) <= 1

\* C3: once a stop has been accepted for a session no further stop runs for
\* it: vp.stopRecording and onRecordingStop are invoked at most once per
\* session.
C3_StopOnce ==
  /\ Cardinality(StopsInProgress) <= 1
  /\ \A s \in Sessions :
       /\ Cardinality({i \in StopsOfSession(s) : calls[i].local}) <= 1
       /\ Cardinality({i \in StopsOfSession(s) : calls[i].cbTime > 0}) <= 1

\* C4: a start request whose status query reports that the server is
\* recording ends in Idle with the conflict reported: the invocation ends
\* with the error toast and the onStartRecordingFailed it was given,
\* without vp.startRecording, without a remote start command and without
\* setting recordingInProgress, and when it ends no recording is in
\* progress and no start is under way.
C4_ConflictAborts ==
  /\ [](\A i \in StartCalls :
          calls[i].status = "recording" =>
            /\ calls[i].pc = "done"
            /\ calls[i].failedCb = calls[i].callback
            /\ ~calls[i].local
            /\ calls[i].rcmd = "none"
            /\ ~calls[i].setRIP /\ ~calls[i].owner)
  /\ [][\A i \in StartCalls :
          (calls[i].pc = "isRec" /\ calls'[i].status = "recording") =>
            (~recordingInProgress' /\ StartsInProgress' = {})]_vars

\* C5: a start request whose status query fails (answers unavailable or
\* throws) calls vp.startRecording, issues no remote start command and
\* does not invoke onStartRecordingFailed (which is invoked for such a
\* request only by a fatal error of the encoder); in the step in which the
\* encoder confirms its session recordingInProgress becomes true.
C5_UnavailableStartsLocal ==
  /\ [](\A i \in StartCalls :
          calls[i].status \in {"unavailable", "threw"} =>
            /\ calls[i].local
            /\ calls[i].pc \in {"encStart", "done"}
            /\ calls[i].rcmd = "none"
            /\ calls[i].failedCb => calls[i].fatal
            /\ calls[i].owner => calls[i].setRIP)
  /\ [][\A i \in StartCalls :
          (calls[i].status \in {"unavailable", "threw"} /\ ~calls[i].owner
             /\ calls'[i].owner) =>
            (recordingInProgress' /\ vpState' = "recording")]_vars

\* C6: the failure of a remote start or stop command changes nothing of
\* the local session: recordingInProgress, the mirrored mark, the encoder
\* and the position of the call that issued the command stay as they are,
\* so the start still reaches Recording and the stop still awaits the
\* encoder and reaches Idle.
C6_RemoteFailureIsolated ==
  [][\A i \in CallIds :
       (calls[i].rcmd = "pending" /\ calls'[i].rcmd = "failed") =>
         /\ recordingInProgress' = recordingInProgress
         /\ recordingOnServer' = recordingOnServer
         /\ vpState' = vpState
         /\ recordedChunks' = recordedChunks
         /\ calls'[i].pc = calls[i].pc
         /\ calls'[i].local = calls[i].local]_vars

C6_Witness ==
  /\ \E i \in StartCalls :
       calls[i].rcmd = "failed" /\ calls[i].owner /\ calls[i].setRIP
  /\ \E j \in StopCalls :
       calls[j].rcmd = "failed" /\ calls[j].pc = "done" /\ calls[j].setRIP
  /\ ~recordingInProgress /\ vpState = "idle"

\* C7: recordingInProgress becomes false only after the flush has completed
\* and onRecordingStop has run, so no session starts while the callback
\* runs, and clearing recordedChunks removes no chunk of a newer session.
C7_IdleAfterCallback ==
  \A i \in StopCalls :
    /\ calls[i].pc = "callback" =>
         (recordingInProgress /\ StartsInProgress = {})
    /\ \A k \in 1..Len(calls[i].lost) : calls[i].lost[k] <= calls[i].sess

\* C8: onRecordingStop is invoked after vp.stopRecording() has resolved,
\* with the chunks and start time of the session, and recordedChunks is
\* not cleared before the promise of the callback has settled.
C8_ClearAfterCallback ==
  \A i \in StopCalls :
    /\ calls[i].pc = "callback" =>
         /\ calls[i].setRIP
         /\ calls[i].cbTime = calls[i].sess
         /\ \A k \in 1..Len(calls[i].cbArg) : calls[i].cbArg[k] = calls[i].sess
         /\ Len(recordedChunks) >= Len(calls[i].cbArg)
    /\ calls[i].cleared => calls[i].pc = "done"

\* C9: a session whose remote start command succeeded issues exactly one
\* remote stop command when it is stopped, and a session whose remote
\* start did not succeed issues none.
C9_MirroredStopIssued ==
  \A s \in Sessions :
    (\E j \in StopsOfSession(s) : calls[j].pc = "done") =>
      Cardinality({j \in StopsOfSession(s) : calls[j].rcmd # "none"}) =
        (IF \E i \in StartOfSession(s) : calls[i].rcmd = "ok" THEN 1 ELSE 0)

\* C10 (as stated): vp.startRecording is begun without waiting for the
\* connection and status queries to respond.
C10_LocalStartNotBlocked ==
  \A i \in StartCalls : calls[i].pc \in {"getConn", "isRec"} => calls[i].local

\* C10 (amended): vp.startRecording is begun only after the connection
\* query, and for a connected server the status query, have responded; it
\* is the remote start command that does not block: vp.startRecording is
\* begun in the step that issues the command, before its response.
C10_LocalStartAfterQuery ==
  \A i \in StartCalls :
    /\ calls[i].local => calls[i].status \in {"notconnected", "unavailable",
                                              "idle"}
    /\ calls[i].pc \in {"getConn", "isRec"} => ~calls[i].local
    /\ calls[i].rcmd # "none" => calls[i].local

C10_Witness ==
  \E i \in StartCalls :
    /\ calls[i].rcmd = "pending" /\ calls[i].owner
    /\ recordingInProgress /\ vpState = "recording"
\* C11: a frame that arrives while processingFrame or processingVideo is
\* set, or while the engine is not initialized, is dropped: processFrame is
\* not called for it then or later, and the flags stay as they are.
C11_BusyFrameDropped ==
  /\ [][(Len(frames') = Len(frames) + 1 /\
         (processingFrame \/ processingVideo \/ ~initialized)) =>
          /\ frames'[Len(frames')] = "dropped"
          /\ UNCHANGED <<processingFrame, processingVideo, initialized>>]_vars
  /\ [][\A i \in 1..Len(frames) :
          frames[i] = "dropped" => frames'[i] = "dropped"]_vars

C11_Witness ==
  \E k, i, j \in 1..Len(frames) :
    /\ k < i /\ i < j
    /\ frames[k] = "drawn" /\ frames[i] = "dropped"
    /\ frames[j] = "inflight" /\ processingFrame

\* C12: a rejected processFrame call is handled by the driver and not left
\* unhandled, processingFrame does not stay set, nothing is drawn for the
\* frame, and a later frame is submitted normally.
C12_FailureHandled ==
  /\ \A i \in 1..Len(frames) : frames[i] # "unhandled"
  /\ Outstanding = {} => ~processingFrame
\* C13: when the videoStream prop changes a processor that is processing
\* is stopped before startProcessing is called, so startProcessing is never
\* invoked while isProcessing is true and at most one frame source is
\* active; once the effect of a render without a stream has run,
\* processing is stopped and not restarted, and a source that is active
\* reads the stream of the last render.
C13_StopBeforeStart ==
  /\ \A k \in 1..Len(streamLog) : streamLog[k] # "startWhileProcessing"
  /\ Cardinality(sources) <= 1
  /\ ~streamEffectDue =>
       /\ videoStream \notin Streams => (~isProcessing /\ sources = {})
       /\ sources \subseteq {videoStream}

C13_Witness ==
  /\ \E k \in 1..Len(streamLog) - 2 :
       /\ streamLog[k] = "start" /\ streamLog[k + 1] = "stop"
       /\ streamLog[k + 2] = "start"
  /\ streamLog[Len(streamLog)] = "stop"
  /\ videoStream = NoStream("null")
\* the setNumHands invocations that have not completed
AllInFlight == {c \in 1..Len(numHandsCalls) : ~numHandsCalls[c].done}

\* C14 (as stated): setNumHands is never invoked on a landmarker whose
\* settingNumHands flag is set, and at most one setNumHands call is in
\* flight at any time.
C14_OneInFlight ==
  /\ \A c \in 1..Len(numHandsCalls) : ~numHandsCalls[c].busy
  /\ Cardinality(AllInFlight) <= 1

\* C14 (amended): setNumHands is never invoked on a landmarker whose
\* settingNumHands flag is set, so at most one setNumHands call is in
\* flight on any one landmarker; while a change is in flight on the
\* landmarker the toggle handler leaves trackTwoHands alone and the effect
\* skips the call.
C14_OneSetNumHands ==
  /\ [](/\ \A c \in 1..Len(numHandsCalls) : ~numHandsCalls[c].busy
        /\ \A h \in Landmarkers : Cardinality(InFlight(h)) <= 1)
  /\ [][(handLandmarker # 0 /\ landmarkers[handLandmarker].settingNumHands)
          => trackTwoHands' = trackTwoHands]_vars
  /\ [][\A e \in 1..Len(effects) :
          (/\ effects[e].outcome = "waiting"
           /\ effects'[e].outcome # "waiting"
           /\ landmarkers[effects[e].hl].settingNumHands)
          => numHandsCalls' = numHandsCalls]_vars

C14_Witness ==
  /\ handLandmarker # 0
  /\ InFlight(handLandmarker) # {}
  /\ ~isTrackTwoHandsDisabled /\ ~isDisabled
  /\ \E e \in 1..Len(effects) :
       effects[e].outcome = "skipped" /\ effects[e].hl = handLandmarker
  /\ \E c \in 1..Len(numHandsCalls) :
       numHandsCalls[c].done /\ numHandsCalls[c].hl = handLandmarker
\* the coordinator is Idle: no recording in progress, in the state and in
\* the last render, and no start or stop under way
Idle ==
  /\ ~recordingInProgress /\ ~rendered.recordingInProgress
  /\ vpState = "idle"
  /\ StartsInProgress = {} /\ StopsInProgress = {}

\* the effect of a render in which isRecording went false runs: the stop
\* request is handled
StopRequestHandled ==
  effectDue = "request" /\ ~isRecording /\ effectDue' = "none"

\* C15: a stop request made while the coordinator is Idle (isRecording
\* goes false) is rejected, when it is handled, with the error "Recording
\* not in progress"; no remote stop command is issued, neither the
\* encoder's stopRecording nor onRecordingStop is invoked, and
\* recordingInProgress, recordingOnServer and recordedChunks are
\* unchanged.
C15_IdleStopRejected ==
  [][(Idle /\ StopRequestHandled) =>
       /\ lastError' = "Recording not in progress"
       /\ UNCHANGED <<calls, vpState, serverRec, recordingInProgress,
                      recordingOnServer, recordedChunks>>]_vars

\* C16: a session this coordinator itself mirrored to the server is never
\* treated as a remote conflict by it: onStartRecordingFailed is not
\* invoked because the server reports the recording that a start sequence
\* still in progress began.
C16_OwnSessionNoConflict ==
  [][\A j \in CallIds :
       (calls[j].pc = "isRec" /\ calls'[j].failedCb) =>
         ~(/\ serverRec = "mine"
           /\ \E i \in StartsInProgress :
                i # j /\ calls[i].rcmd = "ok")]_vars
\* nothing is under way: every invocation has run to its end, no remote
\* command awaits its response, the last render has seen the present
\* props and state and its effect has run
Settled ==
  /\ effectDue = "none"
  /\ StartsInProgress = {} /\ StopsInProgress = {}
  /\ \A i \in CallIds : calls[i].rcmd # "pending"
  /\ View(isRecording, directoryHandle, onRecordingStop,
          onStartRecordingFailed) = LastView

\* the coordinator is idle and nothing is under way
Quiescent == ~recordingInProgress /\ Settled

\* C17: no orphaned remote recording: whenever the coordinator is idle with
\* no start or stop in progress, every remote start command that succeeded
\* has been followed by a remote stop command.
C17_NoOrphanedRemote ==
  Quiescent =>
    \A i \in StartCalls :
      calls[i].rcmd = "ok" =>
        \E j \in StopCalls : j > i /\ calls[j].rcmd # "none"
\* every start met a selected directory and no remote conflict, and every
\* encoder start and stop call has completed
NothingFailed ==
  /\ directoryHandle /\ lastError = "none"
  /\ \A i \in StartCalls :
       /\ calls[i].status # "recording"
       /\ ~calls[i].failedCb /\ ~calls[i].fatal
       /\ calls[i].setRIP
  /\ \A j \in StopCalls : calls[j].setRIP

\* C18: the local recording state follows the requested state: with a
\* directory selected, no remote conflict and encoder calls that complete,
\* once nothing is under way any more recordingInProgress equals
\* isRecording.
C18_FollowsRequest ==
  (Settled /\ NothingFailed) => recordingInProgress = isRecording
\* C19: generateFrameRates(maxFrameRate) terminates for every positive
\* integer and returns a strictly increasing list that starts at 30, grows
\* in steps of at most 30 and contains only rates up to maxFrameRate.
C19_RatesUpToMax ==
  /\ Len(frameRates) <= (maxFrameRate \div RateStep) + 2
  /\ ratesPc = "returned" =>
       /\ frameRates[1] = FirstRate
       /\ \A k \in 1..Len(frameRates) - 1 :
            /\ frameRates[k] < frameRates[k + 1]
            /\ frameRates[k + 1] - frameRates[k] <= RateStep
       /\ \A k \in 1..Len(frameRates) : frameRates[k] <= maxFrameRate
====
